---- MODULE Spec2Model ----
(***************************************************************************)
(* SnusQuit backend (src/main.py, src/schemas.py): four collections of a   *)
(* document store (user, plan, checkin, tip) behind HTTP handlers that run *)
(* concurrently on a thread pool.  A handler that touches the store more   *)
(* than once is modelled one store access per step, so that the accesses   *)
(* of two requests interleave as they do in the program.                   *)
(***************************************************************************)
EXTENDS Integers, Sequences, FiniteSets, TLC

(* ------------------------------ bounds -------------------------------- *)
MaxUsers == 1
MaxPlans == 1
MaxCheckins == 2
MaxClock == 1
MaxWorkers == 2
MaxDay == 7
MaxPortions == 2

(* ------------------------- values and payloads ------------------------ *)
\* Python's None in a numeric or date field (all real values are >= 0).
Null == -99
\* The one user_id text that ObjectId() rejects; every other one parses.
Malformed == 0

Workers == 1..MaxWorkers
\* user_id texts a request can carry: malformed, the ids the store can hand
\* out, and one well-formed id (MaxUsers + 1) that never names a user.
UserRefs == {Malformed} \cup (1..(MaxUsers + 1))
Days == 0..MaxDay
\* Calendar days the interleaved specification draws from.
RecentDays == {MaxDay - 1, MaxDay}
Portions == {Null} \cup (0..MaxPortions)
GoalTypes == {"quit", "reduce"}

\* schemas.Checkin: the request body of POST /api/checkins.
CheckinPayloads ==
  [user_id : UserRefs, date : RecentDays, nicotine_free : BOOLEAN,
   portions_used : {Null, 1}, craving_level : {Null, 5}, note : {Null}]

\* The requests of the interleaved specification: the optional fields left out.
BarePayloads ==
  {p \in CheckinPayloads : p.portions_used = Null /\ p.craving_level = Null}

\* schemas.Plan: the request body of POST /api/plans (the dates of a plan
\* are stored and never read by any handler).
PlanPayloads ==
  [user_id : UserRefs, goal_type : GoalTypes,
   target_portions_per_day : {Null, 1}]

\* The default tips of get_tips, in the order they are inserted.
Defaults ==
  <<[title |-> "Delay the urge", body |-> "Wait 10 minutes and breathe slowly."],
    [title |-> "Swap the habit", body |-> "Chew sugar-free gum or carrots."],
    [title |-> "Know your triggers",
     body |-> "List situations that spark cravings and plan alternatives."],
    [title |-> "Move your body", body |-> "A brisk 5-minute walk can reduce cravings."]>>
\* The static list get_tips answers with when there is no store handle.
Fallback ==
  <<[title |-> "Stay hydrated", body |-> "Sip water when a craving hits."],
    [title |-> "Change routines", body |-> "Avoid triggers like coffee breaks with snus."]>>

VARIABLES db, user, plan, checkin, tip, clock, req, resp

vars == <<db, user, plan, checkin, tip, clock, req, resp>>
stores == <<user, plan, checkin, tip>>

(* --------------------------- store operations ------------------------- *)
\* bson.ObjectId(text): raises on a malformed text.
ObjectIdOk(s) == s # Malformed

\* database.create_document(kind, payload): the payload's fields plus a
\* fresh identifier and the creation time, appended to the collection.
NewDocument(coll, fields, now) ==
  [k \in DOMAIN fields \cup {"id", "created_at"} |->
     IF k = "id" THEN Len(coll) + 1
     ELSE IF k = "created_at" THEN now
     ELSE fields[k]]

create_document(coll, fields, now) == Append(coll, NewDocument(coll, fields, now))

\* db["user"].count_documents({"_id": uid})
count_user(uid) == Cardinality({i \in 1..Len(user) : user[i].id = uid})

Idle == [pc |-> "idle"]

Init ==
  /\ db \in BOOLEAN
  /\ user = <<>>
  /\ plan = <<>>
  /\ checkin = <<>>
  /\ tip = <<>>
  /\ clock = 0
  /\ req = [w \in Workers |-> Idle]
  /\ resp = [op |-> "none", status |-> 0]

\* Wall-clock time passes between any two steps.
Tick ==
  /\ clock < MaxClock
  /\ clock' = clock + 1
  /\ UNCHANGED <<db, user, plan, checkin, tip, req, resp>>

\* POST /api/users
create_user ==
  /\ IF ~db
       THEN /\ resp' = [op |-> "create_user", status |-> 500]
            /\ UNCHANGED user
       ELSE /\ Len(user) < MaxUsers
            /\ user' = create_document(user, [name |-> "n"], clock)
            /\ resp' = [op |-> "create_user", status |-> 200, id |-> Len(user) + 1]
  /\ UNCHANGED <<db, plan, checkin, tip, clock, req>>

\* create_plan without its existence check of the user.
create_plan_NoUserCheck(payload) ==
  /\ IF ~db
       THEN /\ resp' = [op |-> "create_plan", status |-> 500]
            /\ UNCHANGED plan
       ELSE IF ~ObjectIdOk(payload.user_id)
       THEN /\ resp' = [op |-> "create_plan", status |-> 400]
            /\ UNCHANGED plan
       ELSE /\ Len(plan) < MaxPlans
            /\ plan' = create_document(plan, payload, clock)
            /\ resp' = [op |-> "create_plan", status |-> 200, id |-> Len(plan) + 1]
  /\ UNCHANGED <<db, user, checkin, tip, clock, req>>

\* POST /api/plans.  The existence check and the insert are two store
\* accesses; users are never deleted, so a check that passed still holds
\* at the insert and the handler is one step.
create_plan(payload) ==
  /\ IF ~db
       THEN /\ resp' = [op |-> "create_plan", status |-> 500]
            /\ UNCHANGED plan
       ELSE IF ~ObjectIdOk(payload.user_id)
       THEN /\ resp' = [op |-> "create_plan", status |-> 400]
            /\ UNCHANGED plan
       ELSE IF count_user(payload.user_id) = 0
       THEN /\ resp' = [op |-> "create_plan", status |-> 404]
            /\ UNCHANGED plan
       ELSE /\ Len(plan) < MaxPlans
            /\ plan' = create_document(plan, payload, clock)
            /\ resp' = [op |-> "create_plan", status |-> 200, id |-> Len(plan) + 1]
  /\ UNCHANGED <<db, user, checkin, tip, clock, req>>

(* ------------------------- POST /api/checkins ------------------------- *)
\* db["checkin"].find_one({"user_id": u, "date": d}): the identifier of the
\* first match in the collection's natural order, 0 (None) without a match.
find_one_checkin(coll, u, d) ==
  LET hits == {i \in 1..Len(coll) : coll[i].user_id = u /\ coll[i].date = d}
  IN  IF hits = {} THEN 0 ELSE coll[CHOOSE i \in hits : \A j \in hits : i <= j].id

\* payload.model_dump() with date and updated_at set: every field of the
\* schema, a field the request left out as None.
CheckinDoc(payload, now) ==
  [user_id |-> payload.user_id, date |-> payload.date,
   nicotine_free |-> payload.nicotine_free,
   portions_used |-> payload.portions_used,
   craving_level |-> payload.craving_level, note |-> payload.note,
   updated_at |-> now]

\* update_one that replaces the record, its creation time included.
update_one_Replace(coll, id, doc) ==
  [i \in 1..Len(coll) |->
     IF coll[i].id = id
       THEN [k \in DOMAIN coll[i] |->
               IF k \in DOMAIN doc THEN doc[k]
               ELSE IF k = "created_at" THEN doc.updated_at
               ELSE coll[i][k]]
       ELSE coll[i]]

\* db["checkin"].update_one({"_id": id}, {"$set": doc}): the fields of doc
\* overwrite those of the first record with that identifier.
update_one(coll, id, doc) ==
  [i \in 1..Len(coll) |->
     IF coll[i].id = id /\ \A j \in 1..(i - 1) : coll[j].id # id
       THEN [k \in DOMAIN coll[i] |-> IF k \in DOMAIN doc THEN doc[k] ELSE coll[i][k]]
       ELSE coll[i]]

\* db["checkin"].insert_one(doc): doc with created_at and a fresh identifier.
insert_one(coll, doc, now) ==
  Append(coll, [k \in DOMAIN doc \cup {"id", "created_at"} |->
                  IF k = "id" THEN Len(coll) + 1
                  ELSE IF k = "created_at" THEN now
                  ELSE doc[k]])

\* Requests that have looked up nothing and are about to insert.
PendingInserts ==
  Cardinality({w \in Workers : req[w].pc = "checkin_write" /\ req[w].existing = 0})

\* create_or_update_checkin, lines 123-132: the guards and the lookup.
CheckinFind(w, payload) ==
  /\ req[w].pc = "idle"
  /\ IF ~db
       THEN /\ resp' = [op |-> "checkin", status |-> 500]
            /\ UNCHANGED req
       ELSE IF ~ObjectIdOk(payload.user_id)
       THEN /\ resp' = [op |-> "checkin", status |-> 400]
            /\ UNCHANGED req
       ELSE LET existing == find_one_checkin(checkin, payload.user_id, payload.date)
            IN  /\ existing # 0 \/ Len(checkin) + PendingInserts < MaxCheckins
                /\ req' = [req EXCEPT ![w] = [pc |-> "checkin_write",
                                              payload |-> payload,
                                              existing |-> existing]]
                /\ UNCHANGED resp
  /\ UNCHANGED <<db, user, plan, checkin, tip, clock>>

\* create_or_update_checkin, lines 133-143: update in place or insert.
CheckinWrite(w) ==
  /\ req[w].pc = "checkin_write"
  /\ LET doc == CheckinDoc(req[w].payload, clock)
     IN  IF req[w].existing # 0
           THEN /\ checkin' = update_one(checkin, req[w].existing, doc)
                /\ resp' = [op |-> "checkin", status |-> 200, id |-> req[w].existing]
           ELSE /\ checkin' = insert_one(checkin, doc, clock)
                /\ resp' = [op |-> "checkin", status |-> 200, id |-> Len(checkin) + 1]
  /\ req' = [req EXCEPT ![w] = Idle]
  /\ UNCHANGED <<db, user, plan, tip, clock>>

(* ----------------------------- GET /api/tips -------------------------- *)
TipLimit == 20

\* get_tips, lines 228-236: the fallback, or count_documents({}).
TipsCount(w) ==
  /\ req[w].pc = "idle"
  /\ IF ~db
       THEN /\ resp' = [op |-> "tips", status |-> 200, body |-> Fallback]
            /\ UNCHANGED req
       ELSE /\ req' = [req EXCEPT ![w] =
                         IF Len(tip) = 0 THEN [pc |-> "tips_seed", i |-> 1]
                                         ELSE [pc |-> "tips_find"]]
            /\ UNCHANGED resp
  /\ UNCHANGED <<db, user, plan, checkin, tip, clock>>

\* get_tips, lines 243-244: one create_document of the seeding loop.
TipsSeed(w) ==
  /\ req[w].pc = "tips_seed"
  /\ tip' = create_document(tip, Defaults[req[w].i], clock)
  /\ req' = [req EXCEPT ![w] =
               IF req[w].i < Len(Defaults) THEN [pc |-> "tips_seed", i |-> req[w].i + 1]
                                           ELSE [pc |-> "tips_find"]]
  /\ UNCHANGED <<db, user, plan, checkin, clock, resp>>

\* The title and body of each tip record of a list.
Contents(ts) == [i \in 1..Len(ts) |-> [title |-> ts[i].title, body |-> ts[i].body]]

\* get_tips, lines 246-247: db["tip"].find({}).limit(20), serialized.
TipsFind(w) ==
  /\ req[w].pc = "tips_find"
  /\ resp' = [op |-> "tips", status |-> 200,
              body |-> SubSeq(tip, 1, IF Len(tip) < TipLimit THEN Len(tip) ELSE TipLimit)]
  /\ req' = [req EXCEPT ![w] = Idle]
  /\ UNCHANGED <<db, user, plan, checkin, tip, clock>>

(* -------------------------- GET /api/summary -------------------------- *)
WindowBack == 6
LongAgo == 1000

\* Python's round(num / den, k) on the scaled quotient: to the nearest
\* integer, a tie to the even one (den > 0).
Round(num, den) ==
  LET q == num \div den
      r == num - q * den
  IN  IF 2 * r < den THEN q
      ELSE IF 2 * r > den THEN q + 1
      ELSE IF q % 2 = 0 THEN q ELSE q + 1

\* Indices of the user's records: db["checkin"].find({"user_id": user_id}).
UserCheckins(coll, u) == {i \in 1..Len(coll) : coll[i].user_id = u}

\* .sort("date", 1): every ordering of the records by ascending date (a
\* record without a date first); the store fixes no order among equal dates.
RECURSIVE SortedByDate(_, _)
SortedByDate(coll, S) ==
  IF S = {} THEN {<<>>}
  ELSE LET firsts == {i \in S : \A j \in S : coll[i].date <= coll[j].date}
       IN  UNION {{<<coll[i]>> \o t : t \in SortedByDate(coll, S \ {i})} : i \in firsts}

RECURSIVE SumPortions(_)
\* sum(c.get("portions_used", 0) or 0 for c in cs)
SumPortions(cs) ==
  IF cs = <<>> THEN 0
  ELSE (IF Head(cs).portions_used = Null THEN 0 ELSE Head(cs).portions_used)
       + SumPortions(Tail(cs))

\* sum(1 for c in cs if c.get("nicotine_free"))
CountFree(cs) == Cardinality({i \in 1..Len(cs) : cs[i].nicotine_free})

\* c_map = {c.get("date"): c for c in checkins} and c_map.get(day): the
\* last record of the list with that date, <<>> without one.
c_map(cs, day) ==
  LET hits == {i \in 1..Len(cs) : cs[i].date = day}
  IN  IF hits = {} THEN <<>>
      ELSE <<cs[CHOOSE i \in hits : \A j \in hits : j <= i]>>

RECURSIVE Streak_AnyCheckin(_, _)
\* The streak loop without its test of nicotine_free.
Streak_AnyCheckin(cs, day) ==
  IF c_map(cs, day) # <<>> THEN 1 + Streak_AnyCheckin(cs, day - 1) ELSE 0

RECURSIVE Streak(_, _)
\* The while loop of lines 193-199, started at day.
Streak(cs, day) ==
  LET c == c_map(cs, day)
  IN  IF c # <<>> /\ c[1].nicotine_free THEN 1 + Streak(cs, day - 1) ELSE 0

\* The window with a record without a date counted as dated today.
Last7_DefaultToday(cs, today) ==
  LET dateOf(c) == IF c.date = Null THEN today ELSE c.date
      keep(c) == today - WindowBack <= dateOf(c) /\ dateOf(c) <= today
  IN  SelectSeq(cs, keep)

\* Line 203: the records of the last seven days; a record without a date
\* counts as dated today - 1000.
Last7(cs, today) ==
  LET dateOf(c) == IF c.date = Null THEN today - LongAgo ELSE c.date
      keep(c) == today - WindowBack <= dateOf(c) /\ dateOf(c) <= today
  IN  SelectSeq(cs, keep)

\* Lines 184-204: the statistics of the sorted list (avg_portions in
\* hundredths).
Stats(cs, today) ==
  LET last7 == Last7(cs, today)
  IN  [total_checkins |-> Len(cs),
       nicotine_free_days |-> CountFree(cs),
       avg_portions |-> IF Len(cs) > 0 THEN Round(100 * SumPortions(cs), Len(cs)) ELSE 0,
       current_streak |-> Streak(cs, today),
       last7_days |-> Len(last7),
       last7_nicotine_free |-> CountFree(last7),
       last7_sum |-> SumPortions(last7)]

\* db["plan"].find_one({"user_id": u}, sort=[("created_at", -1)]): the
\* user's plans with the latest creation time (the store picks among equal
\* times); empty when the user has no plan.
find_one_plan(coll, u) ==
  {coll[i] : i \in {k \in 1..Len(coll) :
      /\ coll[k].user_id = u
      /\ \A j \in 1..Len(coll) :
           coll[j].user_id = u => coll[j].created_at <= coll[k].created_at}}

\* The adherence without its max(0.0, ...).
Adherence_NoClamp(p, last7_sum, last7_len) ==
  IF p.goal_type = "reduce" /\ p.target_portions_per_day # Null
    THEN LET target == p.target_portions_per_day
             n == IF last7_len > 0 THEN last7_len ELSE 1
         IN  IF target > 0 THEN Round(1000 * (n * target - last7_sum), n * target)
             ELSE Null
    ELSE Null

\* Lines 208-214 for a plan that was found: adherence in tenths of a
\* percent, Null for None.
Adherence(p, last7_sum, last7_len) ==
  IF p.goal_type = "reduce" /\ p.target_portions_per_day # Null
    THEN LET target == p.target_portions_per_day
             n == IF last7_len > 0 THEN last7_len ELSE 1
             tenths == Round(1000 * (n * target - last7_sum), n * target)
         IN  IF target > 0 THEN (IF tenths > 0 THEN tenths ELSE 0) ELSE Null
    ELSE Null

\* get_summary, lines 174-204: the guards, the check-ins, the statistics.
SummaryRead(w, u, today) ==
  /\ req[w].pc = "idle"
  /\ IF ~db
       THEN /\ resp' = [op |-> "summary", status |-> 500]
            /\ UNCHANGED req
       ELSE IF ~ObjectIdOk(u)
       THEN /\ resp' = [op |-> "summary", status |-> 400]
            /\ UNCHANGED req
       ELSE /\ \E cs \in SortedByDate(checkin, UserCheckins(checkin, u)) :
                 req' = [req EXCEPT ![w] = [pc |-> "summary_plan", user_id |-> u,
                                            today |-> today, stats |-> Stats(cs, today)]]
            /\ UNCHANGED resp
  /\ UNCHANGED <<db, user, plan, checkin, tip, clock>>

\* The response of get_summary for the adherence a.
SummaryBody(r, a) ==
  [op |-> "summary", status |-> 200, user_id |-> r.user_id, today |-> r.today,
   total_checkins |-> r.stats.total_checkins,
   nicotine_free_days |-> r.stats.nicotine_free_days,
   current_streak |-> r.stats.current_streak,
   avg_portions |-> r.stats.avg_portions,
   last7_days |-> r.stats.last7_days,
   last7_nicotine_free |-> r.stats.last7_nicotine_free,
   adherence_percent |-> a]

\* get_summary, lines 206-223: the plan, the adherence, the response.
SummaryPlan(w) ==
  /\ req[w].pc = "summary_plan"
  /\ LET found == find_one_plan(plan, req[w].user_id)
         r == req[w]
     IN  IF found = {}
           THEN resp' = SummaryBody(r, Null)
           ELSE \E p \in found :
                  resp' = SummaryBody(r, Adherence(p, r.stats.last7_sum, r.stats.last7_days))
  /\ req' = [req EXCEPT ![w] = Idle]
  /\ UNCHANGED <<db, user, plan, checkin, tip, clock>>

\* create_or_update_checkin run from its first line to its last with no other
\* request in between: the collection it leaves and the identifier it returns.
RunCheckin(coll, payload, now) ==
  LET existing == find_one_checkin(coll, payload.user_id, payload.date)
      doc == CheckinDoc(payload, now)
  IN  IF existing # 0
        THEN [coll |-> update_one(coll, existing, doc), id |-> existing]
        ELSE [coll |-> insert_one(coll, doc, now), id |-> Len(coll) + 1]

(* --------------------------- specifications --------------------------- *)
\* The four collections never meet in one handler except in get_summary
\* (checkin and plan) and create_plan (user and plan), so the system is
\* checked as the components below, each over the same state.

\* Concurrent check-ins and summaries of the thread pool.
Next ==
  \/ Tick
  \/ create_user
  \/ \E w \in Workers, p \in BarePayloads : CheckinFind(w, p)
  \/ \E w \in Workers : CheckinWrite(w)
  \/ \E w \in Workers, u \in UserRefs : SummaryRead(w, u, MaxDay)
  \/ \E w \in Workers : SummaryPlan(w)

\* Users and plans, and check-ins whose user_id is malformed or names no user.
PlanNext ==
  \/ Tick
  \/ create_user
  \/ \E p \in PlanPayloads : create_plan(p)
  \/ \E p \in {q \in BarePayloads : /\ q.date = MaxDay /\ q.nicotine_free
                                    /\ q.user_id \in {Malformed, MaxUsers + 1}} :
       CheckinFind(1, p)
  \/ CheckinWrite(1)

\* Check-ins of user 1 with their optional fields, one request at a time.
UpsertNext ==
  \/ Tick
  \/ \E p \in {q \in CheckinPayloads : q.user_id <= 1} : CheckinFind(1, p)
  \/ CheckinWrite(1)

\* Concurrent GET /api/tips requests.
TipNext ==
  \/ Tick
  \/ \E w \in Workers : TipsCount(w)
  \/ \E w \in Workers : TipsSeed(w)
  \/ \E w \in Workers : TipsFind(w)

\* GET /api/summary over a stored history.
SummaryNext ==
  \/ \E today \in RecentDays : SummaryRead(1, 1, today)
  \/ SummaryPlan(1)

\* A check-in record as the store holds it.
Rec(u, d, nf, p) ==
  [id |-> 0, user_id |-> u, date |-> d, nicotine_free |-> nf, portions_used |-> p,
   craving_level |-> Null, note |-> Null, created_at |-> 0, updated_at |-> 0]

\* A plan record as the store holds it.
PlanRec(u, g, t, at) ==
  [id |-> 0, user_id |-> u, goal_type |-> g, target_portions_per_day |-> t,
   created_at |-> at]

\* Identifiers in insertion order.
Numbered(s) == [i \in 1..Len(s) |-> [s[i] EXCEPT !.id = i]]

RECURSIVE DayRecords(_, _)
\* User 1's check-ins of days d..MaxDay: per day none, a nicotine-free one
\* or one with use.
DayRecords(f, d) ==
  IF d > MaxDay THEN <<>>
  ELSE (IF f[d] = "none" THEN <<>> ELSE <<Rec(1, d, f[d] = "free", Null)>>)
       \o DayRecords(f, d + 1)

\* One more record: a second check-in of a day (left by two racing
\* requests), a record another client wrote without a date, or a check-in
\* of the user that was never created.
Extras ==
  {<<>>}
  \cup {<<Rec(1, d, nf, Null)>> : d \in {Null, MaxDay - 1}, nf \in BOOLEAN}
  \cup {<<Rec(MaxUsers + 1, MaxDay, TRUE, Null)>>}

StoreInit ==
  /\ db = TRUE
  /\ user = create_document(<<>>, [name |-> "n"], 0)
  /\ tip = <<>>
  /\ clock = 0
  /\ req = [w \in Workers |-> Idle]
  /\ resp = [op |-> "none", status |-> 0]

SummaryInit ==
  /\ StoreInit
  /\ plan = <<>>
  /\ \E f \in [Days -> {"none", "free", "used"}], e \in Extras :
       checkin = Numbered(DayRecords(f, 0) \o e)

\* Days around the edges of the seven-day window of today = MaxDay.
EdgeDays == {Null, MaxDay - 7, MaxDay - 6, MaxDay}
AdherenceCheckins == {Rec(1, d, FALSE, p) : d \in EdgeDays, p \in Portions}
AdherencePlans ==
  {PlanRec(u, g, t, 0) : u \in 1..(MaxUsers + 1), g \in GoalTypes,
                         t \in {Null, 0, 1, MaxPortions + 1}}

AdherenceInit ==
  /\ StoreInit
  /\ \E cs \in {<<>>} \cup {<<a>> : a \in AdherenceCheckins}
                 \cup {<<a, b>> : a \in AdherenceCheckins, b \in AdherenceCheckins} :
       checkin = Numbered(cs)
  /\ \E ps \in {<<>>} \cup {<<a>> : a \in AdherencePlans}
                 \cup {<<a, [b EXCEPT !.created_at = t]>> :
                          a \in AdherencePlans, b \in AdherencePlans, t \in 0..MaxClock} :
       plan = Numbered(ps)

AdherenceNext ==
  \/ SummaryRead(1, 1, MaxDay)
  \/ SummaryPlan(1)

Spec == Init /\ [][Next]_vars
PlanSpec == Init /\ [][PlanNext]_vars
UpsertSpec == Init /\ [][UpsertNext]_vars
TipSpec == Init /\ [][TipNext]_vars
SummarySpec == SummaryInit /\ [][SummaryNext]_vars
AdherenceSpec == AdherenceInit /\ [][AdherenceNext]_vars

(* ------------------------------- claims ------------------------------- *)
\* Some record of user u dated d (with nicotine_free true, when free).
HasCheckin(u, d, free) ==
  \E i \in 1..Len(checkin) :
    /\ checkin[i].user_id = u
    /\ checkin[i].date = d
    /\ free => checkin[i].nicotine_free

\* The user's dated records of the seven days up to today.
InWindow(u, today) ==
  {i \in 1..Len(checkin) :
     /\ checkin[i].user_id = u
     /\ checkin[i].date # Null
     /\ today - 6 <= checkin[i].date
     /\ checkin[i].date <= today}

RECURSIVE PortionsOf(_)
PortionsOf(S) ==
  IF S = {} THEN 0
  ELSE LET i == CHOOSE j \in S : TRUE
       IN  (IF checkin[i].portions_used = Null THEN 0 ELSE checkin[i].portions_used)
           + PortionsOf(S \ {i})

IsSummary == resp.op = "summary" /\ resp.status = 200

\* C1: for every (user_id, date) the checkin collection holds at most one
\* record, whatever POST /api/checkins requests ran and however their
\* lookups and writes interleaved.
C1_UniqueNaturalKey ==
  \A i, j \in 1..Len(checkin) :
    (checkin[i].user_id = checkin[j].user_id /\ checkin[i].date = checkin[j].date)
      => i = j

\* C2: from every store state, POST /api/checkins run twice in a row with
\* the same body returns the same identifier twice and leaves exactly one
\* record of that (user_id, date).
C2_Idempotent ==
  db => \A p \in {q \in BarePayloads : ObjectIdOk(q.user_id)} :
          LET r1 == RunCheckin(checkin, p, clock)
              r2 == RunCheckin(r1.coll, p, clock)
          IN  /\ r1.id = r2.id
              /\ Cardinality({i \in 1..Len(r2.coll) :
                    r2.coll[i].user_id = p.user_id /\ r2.coll[i].date = p.date}) = 1

\* The largest k such that each of today, today-1, ..., today-(k-1) has a
\* nicotine-free check-in of the user.
LongestRun(u, today) ==
  CHOOSE k \in 0..(today + 1) :
    /\ \A j \in 0..(k - 1) : HasCheckin(u, today - j, TRUE)
    /\ ~HasCheckin(u, today - k, TRUE)

\* C3: the current_streak that get_summary computes from the check-ins it
\* reads is the number of consecutive days ending today that each have a
\* nicotine-free check-in (0 when today has none).
C3_CurrentStreak ==
  [][\A w \in Workers :
       (req[w].pc = "idle" /\ req'[w].pc = "summary_plan")
         => req'[w].stats.current_streak = LongestRun(req'[w].user_id, req'[w].today)]_vars

\* C4: last7.days is the number of the user's records dated within
\* [today-6, today], last7.nicotine_free the number of those that are
\* nicotine-free; a record without a date is not counted.
C4_Last7 ==
  IsSummary =>
    /\ resp.last7_days = Cardinality(InWindow(resp.user_id, resp.today))
    /\ resp.last7_nicotine_free =
         Cardinality({i \in InWindow(resp.user_id, resp.today) : checkin[i].nicotine_free})

C4_Witness ==
  /\ IsSummary
  /\ resp.last7_days >= 2
  /\ resp.last7_nicotine_free < resp.last7_days
  /\ HasCheckin(resp.user_id, Null, FALSE)
  /\ HasCheckin(resp.user_id, resp.today - 6, FALSE)
  /\ HasCheckin(resp.user_id, resp.today - 7, FALSE)

\* a (tenths of a percent) is max(0, round((1 - (sum/n)/target) * 100, 1)),
\* the mean taken as 0 over an empty window.
IsAdherence(a, sum, n, target) ==
  /\ a \in 0..1000
  /\ IF n = 0 THEN a = 1000
     ELSE IF sum >= n * target THEN a = 0
     ELSE LET d == a * n * target - 1000 * (n * target - sum)
          IN  2 * (IF d < 0 THEN -d ELSE d) <= n * target

\* C5: adherence_percent is null unless the user's most recently created
\* plan exists, has goal_type "reduce" and a target above 0; then it is
\* max(0, round((1 - last7_avg/target) * 100, 1)) over the window
\* [today-6, today], between 0 and 100.
C5_Adherence ==
  IsSummary =>
    LET mine == {i \in 1..Len(plan) : plan[i].user_id = resp.user_id}
        latest == {i \in mine : \A j \in mine : plan[j].created_at <= plan[i].created_at}
        win == InWindow(resp.user_id, resp.today)
    IN  IF mine = {} THEN resp.adherence_percent = Null
        ELSE \E i \in latest :
               IF /\ plan[i].goal_type = "reduce"
                  /\ plan[i].target_portions_per_day # Null
                  /\ plan[i].target_portions_per_day > 0
                 THEN IsAdherence(resp.adherence_percent, PortionsOf(win),
                                  Cardinality(win), plan[i].target_portions_per_day)
                 ELSE resp.adherence_percent = Null

C5_Witness ==
  /\ IsSummary
  /\ Len(plan) = 2
  /\ plan[1].user_id = resp.user_id /\ plan[2].user_id = resp.user_id
  /\ plan[1].created_at < plan[2].created_at
  /\ plan[1].goal_type = "quit"
  /\ Cardinality(InWindow(resp.user_id, resp.today)) = 2
  /\ resp.adherence_percent = 833

\* C6: tips are seeded once: the collection only ever holds the four
\* defaults, each once and in order, and every GET /api/tips that reaches
\* the store returns exactly those four.
C6_SeedOnce ==
  db => /\ Len(tip) <= Len(Defaults)
        /\ Contents(tip) = SubSeq(Defaults, 1, Len(tip))
        /\ resp.op = "tips" => Contents(resp.body) = Defaults

\* The stored user with identifier uid, if any.
UserExists(uid) == \E i \in 1..Len(user) : user[i].id = uid

\* C7: POST /api/plans answers 500 without a store handle, else 400 for a
\* malformed user_id, else 404 for a user_id that names no stored user, and
\* leaves all four collections unchanged in each of these cases; otherwise
\* it appends exactly one plan and returns its identifier.
C7_PlanAllOrNothing ==
  [][\A p \in PlanPayloads :
       create_plan(p) =>
         /\ resp'.op = "create_plan"
         /\ resp'.status =
              (IF ~db THEN 500
               ELSE IF p.user_id = Malformed THEN 400
               ELSE IF ~UserExists(p.user_id) THEN 404
               ELSE 200)
         /\ resp'.status # 200 => UNCHANGED stores
         /\ resp'.status = 200 =>
              /\ Len(plan') = Len(plan) + 1
              /\ SubSeq(plan', 1, Len(plan)) = plan
              /\ plan'[Len(plan')].id = resp'.id
              /\ plan'[Len(plan')].user_id = p.user_id
              /\ \A i \in 1..Len(plan) : plan[i].id # resp'.id
              /\ UNCHANGED <<user, checkin, tip>>]_vars

C7_Witness ==
  /\ resp.op = "create_plan"
  /\ resp.status = 404
  /\ Len(plan) = MaxPlans
  /\ Len(checkin) >= 1

\* The frame of an update in place by worker w: same number of records,
\* every other record and collection untouched, identifier and created_at
\* kept, the existing identifier returned.
UpdateFrame(w) ==
  LET id == req[w].existing
  IN  /\ Len(checkin') = Len(checkin)
      /\ \A i \in 1..Len(checkin) :
           IF checkin[i].id = id
             THEN /\ checkin'[i].id = id
                  /\ checkin'[i].created_at = checkin[i].created_at
             ELSE checkin'[i] = checkin[i]
      /\ Cardinality({i \in 1..Len(checkin) : checkin[i].id = id}) = 1
      /\ resp'.status = 200 /\ resp'.id = id
      /\ UNCHANGED <<user, plan, tip>>

IsUpdate(w) == CheckinWrite(w) /\ req[w].existing # 0

OptionalFields == {"portions_used", "craving_level", "note"}

\* C8 as stated: an update changes only the fields the request provides
\* (and updated_at); a field the request leaves out keeps its value.
C8_OnlyProvidedFields ==
  [][\A w \in Workers :
       IsUpdate(w) =>
         /\ UpdateFrame(w)
         /\ \A i \in 1..Len(checkin) : \A f \in OptionalFields :
              (checkin[i].id = req[w].existing /\ req[w].payload[f] = Null)
                => checkin'[i][f] = checkin[i][f]]_vars

\* C8 as amended: an update sets every field of the request schema to the
\* request's value, a field the request leaves out to null, and updated_at
\* to the current time; the frame is as stated.
C8_AllSchemaFields ==
  [][\A w \in Workers :
       IsUpdate(w) =>
         /\ UpdateFrame(w)
         /\ \A i \in 1..Len(checkin) :
              checkin[i].id = req[w].existing =>
                /\ \A f \in DOMAIN req[w].payload : checkin'[i][f] = req[w].payload[f]
                /\ checkin'[i].updated_at = clock]_vars

C8_Witness ==
  /\ resp.op = "checkin" /\ resp.status = 200
  /\ Len(checkin) = 2
  /\ \E i \in 1..Len(checkin) :
       /\ checkin[i].id = resp.id
       /\ checkin[i].created_at < checkin[i].updated_at
       /\ checkin[i].portions_used = Null
       /\ checkin[i].craving_level = 5

\* C9: every stored plan and every stored check-in names a stored user.
C9_UserExists ==
  /\ \A i \in 1..Len(plan) : UserExists(plan[i].user_id)
  /\ \A i \in 1..Len(checkin) : UserExists(checkin[i].user_id)

Min(a, b) == IF a < b THEN a ELSE b

\* C10: in every summary, total_checkins is the number of the user's
\* records, last7.nicotine_free <= last7.days <= total_checkins,
\* last7.nicotine_free <= nicotine_free_days <= total_checkins,
\* current_streak <= nicotine_free_days and
\* min(current_streak, 7) <= last7.nicotine_free.
C10_SummaryBounds ==
  IsSummary =>
    /\ resp.total_checkins =
         Cardinality({i \in 1..Len(checkin) : checkin[i].user_id = resp.user_id})
    /\ resp.last7_nicotine_free <= resp.last7_days
    /\ resp.last7_days <= resp.total_checkins
    /\ resp.last7_nicotine_free <= resp.nicotine_free_days
    /\ resp.nicotine_free_days <= resp.total_checkins
    /\ resp.current_streak <= resp.nicotine_free_days
    /\ Min(resp.current_streak, 7) <= resp.last7_nicotine_free

C10_Witness ==
  /\ IsSummary
  /\ resp.current_streak > 7
  /\ resp.last7_nicotine_free = 7
  /\ resp.total_checkins > resp.nicotine_free_days
====
